---- MODULE Spec2Model ----
(***************************************************************************)
(* Lunatic Python, the Lua-in-Python side (luainpython.c): Runtime         *)
(* Instances (LuaStateObject), Foreign Object Proxies (LuaObject), the     *)
(* value converter (LuaConvert / py_convert) and the call bridge           *)
(* (LuaCall).  Every public entry point of the extension is one action.    *)
(***************************************************************************)
EXTENDS Integers, Sequences, FiniteSets, TLC

\* ---------------------------------------------------------------- bounds
MaxStates == 2
MaxCtx == 2
MaxProxies == 2
\* instances and proxies the general specification uses
SoloStates == 1
SoloProxies == 1
MaxArgs == 2
MaxStale == 1
MaxDepth == 3

\* ------------------------------------------------------ program constants
LUA_NOREF == -2
LUA_REFNIL == -1

StateIds == 1..MaxStates
CtxIds == 1..MaxCtx
ProxyIds == 1..MaxProxies
\* a proxy holds at most two registry slots (ref, refiter)
MaxRef == 2 * MaxProxies
Handles == 1..MaxRef
\* deepest Guest stack an operation entered with MaxStale entries builds:
\* callee + arguments (LuaCall), or wrapped value + key + value (next)
MaxStack == MaxStale + MaxArgs + 3

\* gstate is the module's static default instance (_state, 0 for NULL); hist
\* is history: what each proxy's iteration yielded in its current pass, and
\* how many passes it finished
VARIABLES st, ctx, px, res, crashed, badUnref, leaked, gstate, hist

vars == <<st, ctx, px, res, crashed, badUnref, leaked, gstate, hist>>

\* ------------------------------------------------------------ Guest values
\* lua_Number is a double; n holds twice the value, so halves are exact.
LNone == [t |-> "none", n |-> 0, s |-> ""]
LNil == [t |-> "nil", n |-> 0, s |-> ""]
LBool(b) == [t |-> "boolean", n |-> IF b THEN 1 ELSE 0, s |-> ""]
LNum(twice) == [t |-> "number", n |-> twice, s |-> ""]
LStr(x) == [t |-> "string", n |-> 0, s |-> x]
LTab(id) == [t |-> "table", n |-> id, s |-> ""]
LFun(name) == [t |-> "function", n |-> 0, s |-> name]
LUserPy(id) == [t |-> "userdata", n |-> id, s |-> "py"]
LUserRaw(id) == [t |-> "userdata", n |-> id, s |-> "raw"]

\* ------------------------------------------------------------- Host values
NULL == [t |-> "NULL", n |-> 0, s |-> ""]
PyNone == [t |-> "none", n |-> 0, s |-> ""]
PyBool(b) == [t |-> "bool", n |-> IF b THEN 1 ELSE 0, s |-> ""]
PyInt(k) == [t |-> "int", n |-> k, s |-> ""]
\* a Host float; n holds twice the value
PyFloat(twice) == [t |-> "float", n |-> twice, s |-> ""]
PyStr(x) == [t |-> "str", n |-> 0, s |-> x]
PyProxy(p) == [t |-> "proxy", n |-> p, s |-> ""]
PyObj(id) == [t |-> "pyobj", n |-> id, s |-> ""]

\* the pending Host exception (PyErr_*); pos is the position a message names
\* text is the Guest diagnostic the message carries
NoExc == [type |-> "none", msg |-> "", pos |-> -1, text |-> ""]
Exc(type, msg, pos) == [type |-> type, msg |-> msg, pos |-> pos, text |-> ""]
ExcText(type, msg, text) ==
  [type |-> type, msg |-> msg, pos |-> -1, text |-> text]

\* ------------------------------------------------------------ Guest context
Keys == {"require", "x", "y"}
KeyOrder == <<"require", "x", "y">>

FreeSlot == [used |-> FALSE, val |-> LNil, by |-> 0]

\* the context lua_newstate + luaL_openlibs + luaopen_python leaves behind
\* panic is the fatal-error handler (G(L)->panic): lua_newstate installs none
FreshCtx ==
  [open |-> "open",
   stack |-> <<>>,
   panic |-> "NULL",
   reg |-> [h \in Handles |-> FreeSlot],
   globals |-> [k \in Keys |-> IF k = "require" THEN LFun("require") ELSE LNil]]

NoCtx == [FreshCtx EXCEPT !.open = "none",
                          !.globals = [k \in Keys |-> LNil]]

NoState == [mem |-> "free", LuaState |-> 0, refcnt |-> 0, held |-> FALSE]
NoProxy == [mem |-> "free", state |-> 0, ref |-> 0, refiter |-> 0, born |-> 0]

\* the heap as the handlers see and change it
World == [st |-> st, ctx |-> ctx, px |-> px, bad |-> badUnref,
          leak |-> leaked, over |-> FALSE, dead |-> FALSE, g |-> gstate,
          fail |-> 0, errjmp |-> 0, depth |-> 0]

\* ------------------------------------------------------------ Lua C API
lua_gettop(W, c) == Len(W.ctx[c].stack)

\* lua_settop(L, 0)
lua_settop0(W, c) == [W EXCEPT !.ctx[c].stack = <<>>]

AbsIndex(stk, n) == IF n > 0 THEN n ELSE Len(stk) + n + 1

\* the value at an acceptable index, LNone (LUA_TNONE) at any other
index2adr(stk, n) ==
  LET a == AbsIndex(stk, n)
  IN IF a >= 1 /\ a <= Len(stk) THEN stk[a] ELSE LNone

lua_push(W, c, v) ==
  IF Len(W.ctx[c].stack) >= MaxStack
    THEN [W EXCEPT !.over = TRUE]
    ELSE [W EXCEPT !.ctx[c].stack = Append(@, v)]

\* lua_pop(L, k)
lua_pop(W, c, k) ==
  LET stk == W.ctx[c].stack
  IN [W EXCEPT !.ctx[c].stack =
        IF Len(stk) <= k THEN <<>> ELSE SubSeq(stk, 1, Len(stk) - k)]

\* lua_pushvalue(L, n): a nil for an index that holds nothing
lua_pushvalue(W, c, n) ==
  LET v == index2adr(W.ctx[c].stack, n)
  IN lua_push(W, c, IF v = LNone THEN LNil ELSE v)

\* lua_rawgeti(L, LUA_REGISTRYINDEX, ref)
lua_rawgeti(W, c, ref) ==
  lua_push(W, c, IF ref \in Handles /\ W.ctx[c].reg[ref].used
                   THEN W.ctx[c].reg[ref].val ELSE LNil)

\* lua_rawseti(L, LUA_REGISTRYINDEX, ref): stores and pops the top.  by, the
\* proxy the slot was allocated for by luaL_ref, is not an allocation of this
lua_rawseti(W, c, ref) ==
  LET stk == W.ctx[c].stack
      v == stk[Len(stk)]
      W1 == lua_pop(W, c, 1)
  IN IF ref \in Handles
       THEN [W1 EXCEPT !.ctx[c].reg[ref] =
                        [used |-> v # LNil, val |-> v,
                         by |-> IF @.used /\ v # LNil THEN @.by ELSE 0]]
       ELSE W1

\* lua_atpanic(L, h)
lua_atpanic(W, c, h) == [W EXCEPT !.ctx[c].panic = h]

\* TRY: old_panic = lua_atpanic(LuaState, py_lua_panic); setjmp(errjmp).
\* W.depth counts the guards that are running, and W.errjmp is the guard
\* whose setjmp filled the one jump buffer last.
TRY(W, c) ==
  [lua_atpanic(W, c, "py_lua_panic") EXCEPT !.depth = @ + 1,
                                            !.errjmp = W.depth + 1]

\* CATCH ... ENDTRY: lua_atpanic(LuaState, old_panic) on either branch
\* a guard that leaves py_lua_panic installed
ENDTRY_NoRestore(W, c, old_panic) == [W EXCEPT !.depth = @ - 1]

ENDTRY(W, c, old_panic) ==
  [lua_atpanic(W, c, old_panic) EXCEPT !.depth = @ - 1]

\* an error raised outside any protected call (luaD_throw with no errorJmp):
\* with a handler installed the stack is reset to the error value alone and
\* the handler runs (py_lua_panic jumps to errjmp); with none the process
\* exits.  The jump lands in the catch branch of the running guard when
\* that guard filled errjmp; when a guard that has returned since filled
\* it, longjmp goes to a frame that no longer exists.
luaD_throw(W, c, msg) ==
  IF W.ctx[c].panic = "py_lua_panic" /\ W.errjmp = W.depth
    THEN [W EXCEPT !.ctx[c].stack = <<LStr(msg)>>]
    ELSE [W EXCEPT !.dead = TRUE]

LowestFree(reg) == CHOOSE h \in Handles :
                     /\ ~reg[h].used
                     /\ \A g \in Handles : g < h => reg[g].used

\* luaL_ref(L, LUA_REGISTRYINDEX): pops the top and returns a handle for it
luaL_ref(W, c, p) ==
  LET stk == W.ctx[c].stack
      v == stk[Len(stk)]
      W1 == lua_pop(W, c, 1)
      reg == W.ctx[c].reg
  IN IF v = LNil THEN [W |-> W1, ref |-> LUA_REFNIL]
     ELSE IF \A h \in Handles : reg[h].used
       THEN [W |-> [W1 EXCEPT !.over = TRUE], ref |-> LUA_REFNIL]
     ELSE LET h == LowestFree(reg)
          IN [W |-> [W1 EXCEPT !.ctx[c].reg[h] =
                                 [used |-> TRUE, val |-> v, by |-> p]],
              ref |-> h]

\* luaL_unref(L, LUA_REGISTRYINDEX, ref) on behalf of proxy p.  bad records a
\* release of a slot that is not an allocated handle of p.
luaL_unref(W, c, ref, p) ==
  IF ref >= 0
    THEN IF ref \in Handles
           THEN [W EXCEPT !.ctx[c].reg[ref] = FreeSlot,
                          !.bad = @ \/ ~(W.ctx[c].reg[ref].used
                                         /\ W.ctx[c].reg[ref].by = p)]
           ELSE [W EXCEPT !.bad = TRUE]
    ELSE W

\* ------------------------------------------------------------ LuaObject_New
\* PyObject_New(LuaObject, &LuaObjectType) returned an object: W.fail counts
\* the allocations left before the one that returns NULL (0: none does)
PyObject_New(W) == [W EXCEPT !.fail = IF @ > 0 THEN @ - 1 ELSE 0]

FreeProxy(W) == CHOOSE p \in ProxyIds :
                  /\ W.px[p].mem = "free"
                  /\ \A q \in ProxyIds : q < p => W.px[q].mem # "free"

\* LuaObject_New without Py_INCREF(state)
LuaObject_New_NoIncref(W, s, n) ==
  LET c == W.st[s].LuaState
  IN IF W.fail = 1
       THEN [W |-> [W EXCEPT !.fail = 0], val |-> NULL]
     ELSE IF \A p \in ProxyIds : W.px[p].mem # "free"
       THEN [W |-> [W EXCEPT !.over = TRUE], val |-> NULL]
       ELSE LET p == FreeProxy(W)
                W1 == lua_pushvalue(PyObject_New(W), c, n)
                r == luaL_ref(W1, c, p)
            IN [W |-> [r.W EXCEPT !.px[p] = [mem |-> "live", state |-> s,
                                             ref |-> r.ref,
                                             refiter |-> LUA_NOREF,
                                             born |-> c]],
                val |-> PyProxy(p)]

LuaObject_New(W, s, n) ==
  LET c == W.st[s].LuaState
  IN IF W.fail = 1
       THEN [W |-> [W EXCEPT !.fail = 0], val |-> NULL]
     ELSE IF \A p \in ProxyIds : W.px[p].mem # "free"
       THEN [W |-> [W EXCEPT !.over = TRUE], val |-> NULL]
       ELSE LET p == FreeProxy(W)
                W1 == lua_pushvalue(PyObject_New(W), c, n)
                r == luaL_ref(W1, c, p)
            IN [W |-> [r.W EXCEPT !.st[s].refcnt = @ + 1,
                                  !.px[p] = [mem |-> "live", state |-> s,
                                             ref |-> r.ref,
                                             refiter |-> LUA_NOREF,
                                             born |-> c]],
                val |-> PyProxy(p)]

\* --------------------------------------------------------------- LuaConvert
\* (long)num of a lua_Number held as twice its value
ToLong(twice) == IF twice >= 0 THEN twice \div 2 ELSE -((-twice) \div 2)

\* the Host value for the Guest value at stack index n of instance s
LuaConvert(W, s, n) ==
  LET c == W.st[s].LuaState
      v == index2adr(W.ctx[c].stack, n)
  IN CASE v.t = "nil" -> [W |-> W, val |-> PyNone]
       [] v.t = "string" -> [W |-> W, val |-> PyStr(v.s)]
       [] v.t = "number" ->
            IF v.n # 2 * ToLong(v.n)
              THEN [W |-> W, val |-> PyFloat(2 * n)]
              ELSE [W |-> W, val |-> PyInt(ToLong(v.n))]
       [] v.t = "boolean" -> [W |-> W, val |-> PyBool(v.n # 0)]
       [] v.t = "userdata" /\ v.s = "py" -> [W |-> W, val |-> PyObj(v.n)]
       [] OTHER -> LuaObject_New(W, s, n)

\* --------------------------------------------------------------- py_convert
\* pushes the Guest value of Host value o on context c
py_convert(W, c, o, withnone) ==
  CASE o.t = "none" ->
         IF withnone THEN [W |-> lua_push(W, c, LNil), ok |-> TRUE]
                     ELSE [W |-> W, ok |-> FALSE]
    [] o.t = "bool" -> [W |-> lua_push(W, c, LBool(o.n # 0)), ok |-> TRUE]
    [] o.t = "int" -> [W |-> lua_push(W, c, LNum(2 * o.n)), ok |-> TRUE]
    [] o.t = "float" -> [W |-> lua_push(W, c, LNum(o.n)), ok |-> TRUE]
    [] o.t = "str" -> [W |-> lua_push(W, c, LStr(o.s)), ok |-> TRUE]
    [] o.t = "proxy" -> [W |-> lua_rawgeti(W, c, W.px[o.n].ref), ok |-> TRUE]
    [] OTHER -> [W |-> lua_push(W, c, LUserPy(o.n)), ok |-> TRUE]

\* TRY { r = py_convert(L, o, withnone); } CATCH { r = 0; } ENDTRY
e_py_convert(W, c, o, withnone) ==
  LET r == py_convert(TRY(W, c), c, o, withnone)
  IN [W |-> ENDTRY(r.W, c, W.ctx[c].panic), ok |-> r.ok,
      exc |-> IF r.ok THEN NoExc ELSE Exc("RuntimeError", "can't convert", -1)]

\* ---------------------------------------------------------------- lua_pcall
LUA_MULTRET == -1

\* lua_tostring of an error value
ToText(v) == IF v.t = "string" THEN v.s ELSE ""

\* what a Guest callee does with the arguments it receives: its results, or
\* the error value it raises
Behave(f, args) ==
  CASE f.t = "function" /\ f.s = "echo" -> [ok |-> TRUE, vals |-> args]
    [] f.t = "function" /\ f.s = "require" ->
         IF Len(args) >= 1 /\ args[1] = LStr("_G")
           THEN [ok |-> TRUE, vals |-> <<LTab(0)>>]
           ELSE [ok |-> FALSE, vals |-> <<LStr("module not found")>>]
    [] OTHER -> [ok |-> FALSE, vals |-> <<LStr("attempt to call")>>]

\* results adjusted to the count the caller asked for
Adjust(vals, nresults) ==
  IF nresults = LUA_MULTRET THEN vals
  ELSE [i \in 1..nresults |-> IF i <= Len(vals) THEN vals[i] ELSE LNil]

\* lua_pcall(L, nargs, nresults, 0): callee and arguments are replaced by
\* the results, or by the error value
lua_pcall(W, c, nargs, nresults) ==
  LET stk == W.ctx[c].stack
      base == Len(stk) - nargs - 1
      f == stk[base + 1]
      args == SubSeq(stk, base + 2, Len(stk))
      b == Behave(f, args)
      out == IF b.ok THEN Adjust(b.vals, nresults) ELSE b.vals
  IN [W |-> [W EXCEPT !.ctx[c].stack = SubSeq(stk, 1, base) \o out],
      status |-> IF b.ok THEN 0 ELSE 2,
      callee |-> f, recv |-> args, rets |-> b.vals]

\* ------------------------------------------------------------------ LuaCall
\* the argument loop: step[i] is the state after positions 1..i (1-based
\* here, i-1 in the messages); a failure stops the loop
PushArgs(W, c, args) ==
  LET step[i \in 0..Len(args)] ==
        IF i = 0 THEN [W |-> W, failed |-> -1, tries |-> 0]
        ELSE LET prev == step[i - 1]
                 r == e_py_convert(prev.W, c, args[i], FALSE)
             IN IF prev.failed >= 0 THEN prev
                ELSE [W |-> r.W, failed |-> IF r.ok THEN -1 ELSE i - 1,
                      tries |-> i]
  IN step[Len(args)]

\* ------------------------------------------------------------ destruction
\* lua_close(L)
lua_close(W, c) == [W EXCEPT !.ctx[c] = [NoCtx EXCEPT !.open = "closed"]]

LuaStateObject_dealloc(W, s) ==
  LET c == W.st[s].LuaState
      W1 == IF c # 0 THEN lua_close(W, c) ELSE W
  IN [W1 EXCEPT !.st[s] = NoState]

\* Py_DECREF of a Runtime Instance
DecrefState(W, s) ==
  IF W.st[s].refcnt = 1 THEN LuaStateObject_dealloc(W, s)
  ELSE [W EXCEPT !.st[s].refcnt = @ - 1]

\* the handles allocated for proxy p that are still allocated
HandlesOf(W, p) ==
  {<<c, h>> \in CtxIds \X Handles :
     W.ctx[c].reg[h].used /\ W.ctx[c].reg[h].by = p}

Disown(W, p) ==
  [W EXCEPT !.ctx = [c \in CtxIds |->
     [W.ctx[c] EXCEPT !.reg = [h \in Handles |->
        IF W.ctx[c].reg[h].by = p
          THEN [W.ctx[c].reg[h] EXCEPT !.by = 0]
          ELSE W.ctx[c].reg[h]]]]]

LuaObject_dealloc(W, p) ==
  LET s == W.px[p].state
      c == W.st[s].LuaState
      W1 == luaL_unref(W, c, W.px[p].ref, p)
      W2 == IF W.px[p].refiter # LUA_NOREF
              THEN luaL_unref(W1, c, W.px[p].refiter, p) ELSE W1
      W3 == [Disown(W2, p) EXCEPT !.leak = @ \/ HandlesOf(W2, p) # {}]
      W4 == DecrefState(W3, s)
  IN [W4 EXCEPT !.px[p] = NoProxy]

\* Py_DECREF of the result tuple: its items are released, last to first
RECURSIVE TupleDealloc(_, _)
TupleDealloc(W, items) ==
  IF items = <<>> THEN W
  ELSE LET o == items[Len(items)]
           W1 == IF o.t = "proxy" THEN LuaObject_dealloc(W, o.n) ELSE W
       IN TupleDealloc(W1, SubSeq(items, 1, Len(items) - 1))

\* the result loop over stack indexes 1..n
ConvertResults(W, s, n) ==
  LET step[i \in 0..n] ==
        IF i = 0 THEN [W |-> W, items |-> <<>>, failed |-> -1]
        ELSE LET prev == step[i - 1]
                 cv == LuaConvert(prev.W, s, i)
             IN IF prev.failed >= 0 THEN prev
                ELSE IF cv.val = NULL
                  THEN [W |-> cv.W, items |-> prev.items, failed |-> i - 1]
                  ELSE [W |-> cv.W, items |-> Append(prev.items, cv.val),
                        failed |-> -1]
  IN step[n]

CallOut(W, kind, val, items, exc, a, pc, crash) ==
  [W |-> W, kind |-> kind, val |-> val, items |-> items, exc |-> exc,
   tries |-> a.tries, pcalled |-> pc.pcalled, pstatus |-> pc.status,
   recv |-> pc.recv, rets |-> pc.rets, callee |-> pc.callee, crash |-> crash]

NoPcall == [pcalled |-> FALSE, status |-> 0, recv |-> <<>>, rets |-> <<>>,
            callee |-> LNone]

PcOf(r) == [pcalled |-> TRUE, status |-> r.status,
            recv |-> r.recv, rets |-> r.rets, callee |-> r.callee]

\* one result: cv is LuaConvert(state, 1)
CallOne(a, r, cv, c) ==
  IF cv.val = NULL
    \* Py_DECREF(ret) with ret == NULL
    THEN CallOut(lua_settop0(cv.W, c), "NULL", NULL, <<>>,
                 Exc("TypeError", "failed to convert return", -1),
                 a, PcOf(r), TRUE)
    ELSE CallOut(lua_settop0(cv.W, c), "value", cv.val, <<>>,
                 NoExc, a, PcOf(r), FALSE)

\* CallMany without Py_DECREF(ret) where a result failed to convert
CallMany_KeepItems(a, r, cr, c) ==
  IF cr.failed >= 0
    THEN CallOut(lua_settop0(cr.W, c), "NULL", NULL, <<>>,
                 Exc("TypeError", "failed to convert return #", cr.failed),
                 a, PcOf(r), FALSE)
    ELSE CallOut(lua_settop0(cr.W, c), "tuple", NULL, cr.items,
                 NoExc, a, PcOf(r), FALSE)

\* several results: cr is the outcome of the result loop
CallMany(a, r, cr, c) ==
  IF cr.failed >= 0
    THEN CallOut(TupleDealloc(lua_settop0(cr.W, c), cr.items),
                 "NULL", NULL, <<>>,
                 Exc("TypeError", "failed to convert return #", cr.failed),
                 a, PcOf(r), FALSE)
    ELSE CallOut(lua_settop0(cr.W, c), "tuple", NULL, cr.items,
                 NoExc, a, PcOf(r), FALSE)

\* CallResults with "nargs >= 1" where the code tests "nargs == 1"
CallResults_OneOrMore(a, r, s, c) ==
  IF r.status # 0
    THEN CallOut(r.W, "NULL", NULL, <<>>,
                 ExcText("Exception", "error: ",
                         ToText(index2adr(r.W.ctx[c].stack, -1))),
                 a, PcOf(r), FALSE)
  ELSE IF lua_gettop(r.W, c) >= 1
    THEN CallOne(a, r, LuaConvert(r.W, s, 1), c)
  ELSE CallOut(lua_settop0(r.W, c), "value", PyNone, <<>>,
               NoExc, a, PcOf(r), FALSE)

\* after lua_pcall returned r
CallResults(a, r, s, c) ==
  IF r.status # 0
    THEN CallOut(r.W, "NULL", NULL, <<>>,
                 ExcText("Exception", "error: ",
                         ToText(index2adr(r.W.ctx[c].stack, -1))),
                 a, PcOf(r), FALSE)
  ELSE IF lua_gettop(r.W, c) = 1
    THEN CallOne(a, r, LuaConvert(r.W, s, 1), c)
  ELSE IF lua_gettop(r.W, c) > 1
    THEN CallMany(a, r, ConvertResults(r.W, s, lua_gettop(r.W, c)), c)
  ELSE CallOut(lua_settop0(r.W, c), "value", PyNone, <<>>,
               NoExc, a, PcOf(r), FALSE)

\* CallArgs without lua_settop(L, 0) where an argument failed to convert
CallArgs_NoReset(a, s, c, nargs) ==
  IF a.failed >= 0
    THEN CallOut(a.W, "NULL", NULL, <<>>,
                 Exc("TypeError", "failed to convert argument #", a.failed),
                 a, NoPcall, FALSE)
    ELSE CallResults(a, lua_pcall(a.W, c, nargs, LUA_MULTRET), s, c)

\* after the argument loop returned a
CallArgs(a, s, c, nargs) ==
  IF a.failed >= 0
    THEN CallOut(lua_settop0(a.W, c), "NULL", NULL, <<>>,
                 Exc("TypeError", "failed to convert argument #", a.failed),
                 a, NoPcall, FALSE)
    ELSE CallResults(a, lua_pcall(a.W, c, nargs, LUA_MULTRET), s, c)

LuaCall(W, s, args) ==
  CallArgs(PushArgs(W, W.st[s].LuaState, args), s, W.st[s].LuaState,
           Len(args))

\* ------------------------------------------------------------ the last call
NoRes ==
  [op |-> "init", s |-> 0, p |-> 0, c |-> 0, kind |-> "none", val |-> NULL,
   items |-> <<>>, exc |-> NoExc, args |-> <<>>, base |-> 0, tries |-> 0,
   pcalled |-> FALSE, pstatus |-> 0, recv |-> <<>>, rets |-> <<>>,
   deref |-> LNone, guestop |-> FALSE, hook |-> "none", fail |-> 0]

Bounded(W) == ~W.over

NoHist == [trail |-> <<>>, passes |-> 0]

CommitH(W, R, H) ==
  /\ Bounded(W)
  /\ st' = W.st
  /\ ctx' = W.ctx
  /\ px' = W.px
  /\ badUnref' = W.bad
  /\ leaked' = W.leak
  /\ res' = R
  /\ crashed' = (crashed \/ W.dead)
  /\ gstate' = W.g
  /\ hist' = H

Commit(W, R) == CommitH(W, R, hist)

\* the process dies (a NULL dereference, or an outcome of undefined behaviour)
Crash(op, s, p) ==
  /\ crashed' = TRUE
  /\ res' = [NoRes EXCEPT !.op = op, !.s = s, !.p = p]
  /\ UNCHANGED <<st, ctx, px, badUnref, leaked, gstate, hist>>

\* the process dies in a guarded operation whose metamethod did hook
CrashIn(op, s, p, hook) ==
  /\ crashed' = TRUE
  /\ res' = [NoRes EXCEPT !.op = op, !.s = s, !.p = p, !.hook = hook]
  /\ UNCHANGED <<st, ctx, px, badUnref, leaked, gstate, hist>>

\* ------------------------------------------------------- table primitives
\* the tables of a context: LTab(0), its globals, and LTab(1), an empty table
\* whose metatable has Host functions (reverse proxies) for __index,
\* __newindex and __tostring
Hooked(t) == t.t = "table" /\ t.n = 1

\* what the Host function behind a metamethod does: it runs a guarded proxy
\* operation of its own and returns ("return"), it raises ("raise"), it runs
\* a guarded operation and then raises ("nested-raise"), or the guarded
\* operation it runs faults ("nested-fault")
HookOutcomes == {"return", "raise", "nested-raise", "nested-fault"}

\* a metamethod call inside a guard.  The nested guard installs and restores
\* the handler like any other, and fills errjmp.  A fault inside the nested
\* guard resets the Guest call stack under the running metamethod, which is
\* undefined.
HostCallback(W, c, hk) ==
  CASE hk = "return" ->
         [W |-> ENDTRY(TRY(W, c), c, W.ctx[c].panic), out |-> "value"]
    [] hk = "raise" -> [W |-> W, out |-> "error"]
    [] hk = "nested-raise" ->
         [W |-> ENDTRY(TRY(W, c), c, W.ctx[c].panic), out |-> "error"]
    [] OTHER -> [W |-> W, out |-> "undefined"]

\* the outcome of a guarded Guest operation
GuardOut(W, fault, text, undefined) ==
  [W |-> W, fault |-> fault, text |-> text, undefined |-> undefined]

\* the Guest raises "boom" in a metamethod that runs inside a guard
Raised(W, c, old_panic) ==
  LET th == luaD_throw(W, c, "boom")
  IN IF th.dead THEN GuardOut(W, FALSE, "", TRUE)
     ELSE GuardOut(ENDTRY(th, c, old_panic), TRUE, "boom", FALSE)

\* t[k] without metamethods
Lookup(L, t, k) ==
  IF t.t = "table" /\ t.n = 0 /\ k.t = "string" /\ k.s \in Keys
    THEN L.globals[k.s] ELSE LNil

\* TRY { lua_gettable(L, -2); } CATCH ... ENDTRY: the key on top is replaced
\* by t[k]; indexing a value that is no table raises
lua_gettable(W, c, hk) ==
  LET old_panic == W.ctx[c].panic
      t == index2adr(W.ctx[c].stack, -2)
      k == index2adr(W.ctx[c].stack, -1)
  IN IF Hooked(t)
       THEN LET cb == HostCallback(TRY(W, c), c, hk)
            IN CASE cb.out = "value" ->
                      GuardOut(ENDTRY(lua_push(lua_pop(cb.W, c, 1), c, LNum(2)),
                                      c, old_panic), FALSE, "", FALSE)
                 [] cb.out = "error" -> Raised(cb.W, c, old_panic)
                 [] OTHER -> GuardOut(cb.W, FALSE, "", TRUE)
     ELSE IF t.t = "table"
       THEN GuardOut(ENDTRY(lua_push(lua_pop(TRY(W, c), c, 1), c,
                                     Lookup(W.ctx[c], t, k)), c, old_panic),
                     FALSE, "", FALSE)
       ELSE GuardOut(ENDTRY(luaD_throw(TRY(W, c), c, "attempt to index"),
                            c, old_panic),
                     TRUE, "attempt to index", FALSE)

\* TRY { lua_settable(L, -3); } CATCH ... ENDTRY: t[k] = v, both popped
lua_settable(W, c, hk) ==
  LET old_panic == W.ctx[c].panic
      t == index2adr(W.ctx[c].stack, -3)
      k == index2adr(W.ctx[c].stack, -2)
      v == index2adr(W.ctx[c].stack, -1)
  IN IF Hooked(t)
       THEN LET cb == HostCallback(TRY(W, c), c, hk)
            IN CASE cb.out = "value" ->
                      GuardOut(ENDTRY(lua_pop(cb.W, c, 2), c, old_panic),
                               FALSE, "", FALSE)
                 [] cb.out = "error" -> Raised(cb.W, c, old_panic)
                 [] OTHER -> GuardOut(cb.W, FALSE, "", TRUE)
     ELSE IF k.t = "nil"
       THEN GuardOut(ENDTRY(luaD_throw(TRY(W, c), c, "index is nil"),
                            c, old_panic),
                     TRUE, "index is nil", FALSE)
       ELSE GuardOut(ENDTRY(IF t.n = 0 /\ k.t = "string" /\ k.s \in Keys
                              THEN [lua_pop(TRY(W, c), c, 2)
                                      EXCEPT !.ctx[c].globals[k.s] = v]
                              ELSE lua_pop(TRY(W, c), c, 2),
                            c, old_panic),
                     FALSE, "", FALSE)

\* TRY { luaL_callmeta(L, -1, "__tostring"); } CATCH ... ENDTRY: r is 1 and
\* the result is pushed where the value has the metamethod
luaL_callmeta(W, c, hk) ==
  LET old_panic == W.ctx[c].panic
      t == index2adr(W.ctx[c].stack, -1)
  IN IF Hooked(t)
       THEN LET cb == HostCallback(TRY(W, c), c, hk)
            IN CASE cb.out = "value" ->
                      [GuardOut(ENDTRY(lua_push(cb.W, c, LStr("hooked")),
                                       c, old_panic), FALSE, "", FALSE)
                         EXCEPT !.text = "hooked"]
                 [] cb.out = "error" -> Raised(cb.W, c, old_panic)
                 [] OTHER -> GuardOut(cb.W, FALSE, "", TRUE)
       ELSE GuardOut(ENDTRY(TRY(W, c), c, old_panic), FALSE, "", FALSE)

KeyPos(k) == CHOOSE i \in 1..Len(KeyOrder) : KeyOrder[i] = k

\* the entries of the globals after position i, in traversal order
After(L, i) == {j \in (i + 1)..Len(KeyOrder) : L.globals[KeyOrder[j]] # LNil}

\* the same for table t: only the globals have entries
\* the traversal does not step over the entry of the cursor
TabAfter_Inclusive(L, t, i) ==
  IF t.n = 0 THEN After(L, IF i > 0 THEN i - 1 ELSE 0) ELSE {}

TabAfter(L, t, i) == IF t.n = 0 THEN After(L, i) ELSE {}

Min(S) == CHOOSE x \in S : \A y \in S : x <= y

\* what lua_next returned: r, or a fault, a crash
NextOut(W, r, fault, crash, ub) ==
  [W |-> W, r |-> r, fault |-> fault, crash |-> crash, ub |-> ub]

\* the traversal step of lua_next from position i of table t, on world G
NextFrom(G, c, t, i) ==
  IF TabAfter(G.ctx[c], t, i) = {}
    THEN lua_pop(G, c, 1)
    ELSE lua_push(lua_push(lua_pop(G, c, 1), c,
                           LStr(KeyOrder[Min(TabAfter(G.ctx[c], t, i))])),
                  c, G.ctx[c].globals[KeyOrder[Min(TabAfter(G.ctx[c], t, i))]])

\* TRY { r = lua_next(L, -2); } CATCH ... ENDTRY.  oc picks, where Lua leaves
\* the outcome open: a key whose entry was removed is still found ("go") or
\* is an invalid key ("fault"); on a value that is no table (hvalue of a
\* non-table) anything may happen ("crash", "fault", or "go": no entry).
lua_next(W, c, oc) ==
  LET old_panic == W.ctx[c].panic
      t == index2adr(W.ctx[c].stack, -2)
      k == index2adr(W.ctx[c].stack, -1)
      faulted == NextOut(ENDTRY(luaD_throw(TRY(W, c), c,
                                           "invalid key to 'next'"),
                                c, old_panic), 0, TRUE, FALSE, FALSE)
      from(i) == NextOut(ENDTRY(NextFrom(TRY(W, c), c, t, i), c, old_panic),
                         IF TabAfter(W.ctx[c], t, i) = {} THEN 0 ELSE 1,
                         FALSE, FALSE, FALSE)
  IN IF t.t # "table"
       THEN CASE oc = "crash" -> NextOut(W, 0, FALSE, TRUE, TRUE)
              [] oc = "fault" -> [faulted EXCEPT !.ub = TRUE]
              [] OTHER -> NextOut(ENDTRY(lua_pop(TRY(W, c), c, 1), c, old_panic),
                                  0, FALSE, FALSE, TRUE)
     ELSE IF k.t = "nil" THEN from(0)
     ELSE IF k.t = "string" /\ k.s \in Keys /\ t.n = 0
       THEN IF W.ctx[c].globals[k.s] = LNil /\ oc = "fault"
              THEN faulted
              ELSE from(KeyPos(k.s))
     ELSE faulted

\* lua_objlen(L, -1)
lua_objlen(v) == IF v.t = "string" THEN 1 ELSE 0

\* ------------------------------------------------------- proxy operations
ProxyOut(W, kind, val, exc, deref, guestop) ==
  [W |-> W, kind |-> kind, val |-> val, exc |-> exc, deref |-> deref,
   guestop |-> guestop]

\* the exception py_lua_panic raises from the error value on the stack
PanicExc(text) == ExcText("RuntimeError", "", text)

LuaObject_getattr(W, p, attr, hk) ==
  LET s == W.px[p].state
      c == W.st[s].LuaState
      W1 == lua_rawgeti(W, c, W.px[p].ref)
      top == index2adr(W1.ctx[c].stack, -1)
  IN IF top.t = "nil"
       THEN ProxyOut(lua_settop0(W1, c), "NULL", NULL,
                     Exc("RuntimeError", "lost reference", -1), top, FALSE)
     ELSE LET r == e_py_convert(W1, c, attr, FALSE)
          IN IF ~r.ok
               THEN ProxyOut(lua_settop0(r.W, c), "NULL", NULL,
                             Exc("ValueError", "can't convert attr/key", -1),
                             top, FALSE)
             ELSE LET g == lua_gettable(r.W, c, hk)
                  IN IF g.undefined
                       THEN ProxyOut(W, "crash", NULL, NoExc, top, TRUE)
                     ELSE IF g.fault
                       THEN ProxyOut(lua_settop0(g.W, c), "NULL", NULL,
                                     PanicExc(g.text), top, TRUE)
                       ELSE LET cv == LuaConvert(g.W, s, -1)
                            IN ProxyOut(lua_settop0(cv.W, c),
                                        IF cv.val = NULL THEN "NULL" ELSE "value",
                                        cv.val, NoExc, top, TRUE)

\* any value passes for a table
lua_istable_Any(v) == TRUE

lua_istable(v) == v.t = "table"

LuaObject_setattr(W, p, attr, value, hk) ==
  LET s == W.px[p].state
      c == W.st[s].LuaState
      W1 == lua_rawgeti(W, c, W.px[p].ref)
      top == index2adr(W1.ctx[c].stack, -1)
  IN IF top.t = "nil"
       THEN ProxyOut(lua_settop0(W1, c), "int", PyInt(-1),
                     Exc("RuntimeError", "lost reference", -1), top, FALSE)
     ELSE IF ~lua_istable(top)
       THEN ProxyOut(lua_settop0(W1, c), "int", PyInt(-1),
                     Exc("TypeError", "Lua object is not a table", -1),
                     top, FALSE)
     ELSE LET rk == e_py_convert(W1, c, attr, FALSE)
          IN IF ~rk.ok
               THEN ProxyOut(lua_settop0(rk.W, c), "int", PyInt(-1),
                             Exc("ValueError", "can't convert key/attr", -1),
                             top, FALSE)
             ELSE LET rv == e_py_convert(rk.W, c, value, FALSE)
                  IN IF ~rv.ok
                       THEN ProxyOut(lua_settop0(rv.W, c), "int", PyInt(-1),
                                     Exc("ValueError", "can't convert value", -1),
                                     top, FALSE)
                     ELSE LET g == lua_settable(rv.W, c, hk)
                          IN IF g.undefined
                               THEN ProxyOut(W, "crash", NULL, NoExc, top, TRUE)
                             ELSE IF g.fault
                               THEN ProxyOut(lua_settop0(g.W, c), "int",
                                             PyInt(-1), PanicExc(g.text),
                                             top, TRUE)
                               ELSE ProxyOut(lua_settop0(g.W, c), "int",
                                             PyInt(0), NoExc, top, TRUE)

\* the text LuaObject_str builds for the value at the top (the switch on
\* lua_type): n holds the registry handle where the format has it
StrOf(v, ref) ==
  IF v.t \in {"table", "function"}
    THEN [t |-> "str", n |-> ref, s |-> v.t]
    ELSE PyStr(v.t)

\* after the guarded luaL_callmeta returned g
StrTail(W, p, c, g, top) ==
  IF g.undefined THEN ProxyOut(W, "crash", NULL, NoExc, top, TRUE)
  ELSE IF g.text = "hooked" /\ ~g.fault
    \* r != 0: the result is read, popped and returned
    THEN ProxyOut(lua_pop(lua_pop(g.W, c, 1), c, 1), "value",
                  PyStr("hooked"), NoExc, top, TRUE)
  ELSE ProxyOut(lua_pop(g.W, c, 1), "value",
                StrOf(index2adr(g.W.ctx[c].stack, -1), W.px[p].ref),
                IF g.fault THEN PanicExc(g.text) ELSE NoExc, top, TRUE)

\* the diagnostic string
LuaObject_str(W, p, hk) ==
  StrTail(W, p, W.st[W.px[p].state].LuaState,
          luaL_callmeta(lua_rawgeti(W, W.st[W.px[p].state].LuaState,
                                    W.px[p].ref),
                        W.st[W.px[p].state].LuaState, hk),
          index2adr(lua_rawgeti(W, W.st[W.px[p].state].LuaState,
                                W.px[p].ref)
                      .ctx[W.st[W.px[p].state].LuaState].stack, -1))

LuaObject_length(W, p) ==
  LET s == W.px[p].state
      c == W.st[s].LuaState
      W1 == lua_rawgeti(W, c, W.px[p].ref)
      top == index2adr(W1.ctx[c].stack, -1)
  IN ProxyOut(lua_settop0(W1, c), "int", PyInt(lua_objlen(top)), NoExc,
              top, TRUE)

LuaObject_call(W, p, args) ==
  LuaCall(lua_rawgeti(lua_settop0(W, W.st[W.px[p].state].LuaState),
                      W.st[W.px[p].state].LuaState, W.px[p].ref),
          W.px[p].state, args)

\* the value stays on the stack
RemoveValue_Keep(W, c) == W

\* "Remove value": lua_pop(L, 1) after a successful lua_next
RemoveValue(W, c) == lua_pop(W, c, 1)

\* every live proxy gets the cursor handle
SetCursor_Shared(W, p, h) ==
  [W EXCEPT !.px = [q \in ProxyIds |->
     IF W.px[q].mem = "live" THEN [W.px[q] EXCEPT !.refiter = h]
                             ELSE W.px[q]]]

\* obj->refiter = h
SetCursor(W, p, h) == [W EXCEPT !.px[p].refiter = h]

\* the cursor handle is kept
ReleaseCursor_Keep(W, c, p) == W

\* luaL_unref(L, LUA_REGISTRYINDEX, obj->refiter); obj->refiter = LUA_NOREF
ReleaseCursor(W, c, p) ==
  SetCursor(luaL_unref(W, c, W.px[p].refiter, p), p, LUA_NOREF)

\* what a next call returns, with the entry <<key, value>> lua_next produced
IterOut(out, entry) == out @@ [entry |-> entry]

\* the top two stack slots after a successful lua_next
EntryOf(L) == <<index2adr(L.stack, -2), index2adr(L.stack, -1)>>

LuaObject_iternext(W, p, oc) ==
  LET s == W.px[p].state
      c == W.st[s].LuaState
      obj == W.px[p]
      W1 == lua_rawgeti(W, c, obj.ref)
      top == index2adr(W1.ctx[c].stack, -1)
      W2 == IF obj.refiter = LUA_NOREF THEN lua_push(W1, c, LNil)
            ELSE lua_rawgeti(W1, c, obj.refiter)
      nx == lua_next(W2, c, oc)
      exc == IF nx.fault THEN PanicExc("invalid key to 'next'") ELSE NoExc
  IN IF nx.crash
       THEN IterOut(ProxyOut(W, "crash", NULL, NoExc, top, TRUE), <<>>)
     ELSE IF nx.r # 0
       THEN LET W3 == RemoveValue(nx.W, c)
                cv == LuaConvert(W3, s, -1)
                W4 == IF obj.refiter = LUA_NOREF
                        THEN LET rr == luaL_ref(cv.W, c, p)
                             IN SetCursor(rr.W, p, rr.ref)
                        ELSE lua_rawseti(cv.W, c, obj.refiter)
            IN IterOut(ProxyOut(W4, IF cv.val = NULL THEN "NULL" ELSE "value",
                                cv.val, NoExc, top, TRUE),
                       EntryOf(nx.W.ctx[c]))
     ELSE IF obj.refiter # LUA_NOREF
       THEN IterOut(ProxyOut(ReleaseCursor(nx.W, c, p),
                             "NULL", NULL, exc, top, TRUE), <<>>)
     ELSE IterOut(ProxyOut(nx.W, "NULL", NULL, exc, top, TRUE), <<>>)

\* ------------------------------------------------------- Runtime Instance
\* one context for every instance (the global LuaState of the older revision)
FreeCtx_Shared(W) == 1

FreeCtx(W) == CHOOSE c \in CtxIds :
                /\ W.ctx[c].open # "open"
                /\ \A d \in CtxIds : d < c => W.ctx[d].open = "open"

\* a context no pointer leads to any more: it stays open, and nothing can read
\* or change it, so only which of its registry slots are allocated is kept
Abandoned(L) ==
  [L EXCEPT !.stack = <<>>,
            !.globals = [k \in Keys |-> LNil],
            !.reg = [h \in Handles |-> [L.reg[h] EXCEPT !.val = LNil]]]

\* how the setup of a new context goes: all of it succeeds, lua_newstate
\* returns NULL, or lua_cpcall(luaopen_python) returns an error status
SetupOutcomes == {"ok", "nomem", "openfail"}

\* the exception the initializer sets when luaopen_python fails
OpenFailExc == Exc("RuntimeError", "can't open python lib in lua", 0)

\* the initializer: a new context, stored over whatever self->LuaState held.
\* lua_newstate's result is not tested, so a NULL goes to luaL_openlibs,
\* which writes through it; a failing luaopen_python only sets the
\* exception, and the context is stored all the same.
LuaStateObject_init(W, s, su) ==
  IF su = "nomem"
    THEN [W |-> [W EXCEPT !.dead = TRUE], exc |-> NoExc]
  ELSE IF \A c \in CtxIds : W.ctx[c].open = "open"
    THEN [W |-> [W EXCEPT !.over = TRUE], exc |-> NoExc]
    ELSE LET c == FreeCtx(W)
             old == W.st[s].LuaState
             W1 == IF old # 0 THEN [W EXCEPT !.ctx[old] = Abandoned(@)] ELSE W
         IN [W |-> [W1 EXCEPT !.ctx[c] = FreshCtx, !.st[s].LuaState = c],
             exc |-> IF su = "openfail" THEN OpenFailExc ELSE NoExc]

\* PyType_GenericNew: the zeroed object, one reference, held by the caller
PyType_GenericNew(W, s) ==
  [W EXCEPT !.st[s] = [mem |-> "live", LuaState |-> 0, refcnt |-> 1,
                       held |-> TRUE]]

\* what the caller of tp_init reads as its int result: LuaStateObject_init
\* is a void function stored as an initproc, so the value is whatever the
\* return register holds
InitOutcomes == {"zero", "negative"}

\* one construction: how the setup goes and what tp_init's caller reads
InitCases == [setup : SetupOutcomes, ret : InitOutcomes]

\* PyObject_Call turns a NULL result that comes with no exception into a
\* SystemError
NullNoError ==
  Exc("SystemError", "NULL result without error in PyObject_Call", 0)

\* PyObject_CallObject(&LuaStateObjectType, NULL): tp_new, tp_init, and when
\* tp_init's result is negative the new object is released and NULL (0)
\* returned.  hold says the Host keeps the reference.
PyObject_CallObject(W, s, oc, hold) ==
  LET i == LuaStateObject_init(PyType_GenericNew(W, s), s, oc.setup)
  IN IF i.W.dead \/ i.W.over
       THEN [W |-> i.W, obj |-> 0, exc |-> NoExc]
     ELSE IF oc.ret = "negative"
       THEN [W |-> DecrefState([i.W EXCEPT !.st[s].held = FALSE], s),
             obj |-> 0,
             exc |-> IF i.exc = NoExc THEN NullNoError ELSE i.exc]
       ELSE [W |-> [i.W EXCEPT !.st[s].held = hold], obj |-> s,
             exc |-> i.exc]

\* the first free instance slot
FreeState(W) == CHOOSE s \in StateIds :
                  /\ W.st[s].mem = "free"
                  /\ \A t \in StateIds : t < s => W.st[t].mem # "free"

\* GetGlobalLuaState(): the static _state, created on the first call
GetGlobalLuaState(W, oc) ==
  IF W.g # 0 THEN [W |-> W, obj |-> W.g, exc |-> NoExc]
  ELSE IF \A s \in StateIds : W.st[s].mem # "free"
    THEN [W |-> [W EXCEPT !.over = TRUE], obj |-> 0, exc |-> NoExc]
  ELSE LET r == PyObject_CallObject(W, FreeState(W), oc, FALSE)
       IN [W |-> [r.W EXCEPT !.g = r.obj], obj |-> r.obj, exc |-> r.exc]

\* Guest source text, by what the Guest compiler makes of it
SrcLists == {<<LNum(5)>>, <<LFun("echo")>>, <<LTab(0)>>, <<LTab(1)>>,
             <<LNum(2), LTab(0)>>}
Assigns == {<<"require", LNil>>}
Sources ==
  {[form |-> f, key |-> "", vals |-> <<>>] :
     f \in {"empty", "garbage", "error", "notstr"}}
  \cup {[form |-> f, key |-> "", vals |-> vs] :
          f \in {"exprs", "return"}, vs \in SrcLists}
  \cup {[form |-> "assign", key |-> kv[1], vals |-> <<kv[2]>>] :
          kv \in Assigns}

Compiles_Any(src, eval) == TRUE

\* luaL_loadbuffer of the text, after eval's "return " prefix
Compiles(src, eval) ==
  IF eval THEN src.form \in {"empty", "exprs", "error"}
          ELSE src.form \in {"empty", "return", "assign", "error"}

\* RunChunk with lua_pcall(L, 0, LUA_MULTRET, 0)
RunChunk_Multret(W, c, src) ==
  LET W1 == lua_pop(W, c, 1)
      step[i \in 0..Len(src.vals)] ==
        IF i = 0 THEN W1 ELSE lua_push(step[i - 1], c, src.vals[i])
  IN CASE src.form = "error" ->
            [W |-> lua_push(W1, c, LStr("boom")), status |-> 2]
       [] src.form = "assign" ->
            [W |-> [W1 EXCEPT !.ctx[c].globals[src.key] = src.vals[1]],
             status |-> 0]
       [] OTHER -> [W |-> step[Len(src.vals)], status |-> 0]

\* lua_pcall(L, 0, 1, 0) of the compiled chunk on top of the stack
RunChunk(W, c, src) ==
  LET W1 == lua_pop(W, c, 1)
  IN CASE src.form = "error" ->
            [W |-> lua_push(W1, c, LStr("boom")), status |-> 2]
       [] src.form = "assign" ->
            [W |-> lua_push([W1 EXCEPT !.ctx[c].globals[src.key] = src.vals[1]],
                            c, LNil),
             status |-> 0]
       [] OTHER ->
            [W |-> lua_push(W1, c, Adjust(src.vals, 1)[1]), status |-> 0]

RunOut(W, kind, val, exc) == [W |-> W, kind |-> kind, val |-> val, exc |-> exc]

LuaState_run(W, s, src, eval) ==
  LET c == W.st[s].LuaState
  IN IF src.form = "notstr"
       THEN RunOut(lua_settop0(W, c), "NULL", NULL,
                   Exc("TypeError", "argument must be string", -1))
     ELSE IF ~Compiles(src, eval)
       THEN RunOut(lua_settop0(lua_push(W, c, LStr("syntax error")), c),
                   "NULL", NULL,
                   ExcText("RuntimeError", "error loading code: ",
                           "syntax error"))
     ELSE LET r == RunChunk(lua_push(W, c, LFun("chunk")), c, src)
          IN IF r.status # 0
               THEN RunOut(lua_settop0(r.W, c), "NULL", NULL,
                           ExcText("RuntimeError", "error executing code: ",
                                   ToText(index2adr(r.W.ctx[c].stack, -1))))
               ELSE LET cv == LuaConvert(r.W, s, -1)
                    IN RunOut(lua_settop0(cv.W, c),
                              IF cv.val = NULL THEN "NULL" ELSE "value",
                              cv.val, NoExc)

\* the value at LUA_GLOBALSINDEX
GlobalsTable == LTab(0)

LuaState_globals(W, s) ==
  LET c == W.st[s].LuaState
      W1 == lua_push(W, c, GlobalsTable)
  IN IF index2adr(W1.ctx[c].stack, -1).t = "nil"
       THEN RunOut(lua_pop(W1, c, 1), "NULL", NULL,
                   Exc("RuntimeError", "lost globals reference", -1))
       ELSE LET cv == LuaConvert(W1, s, -1)
            IN RunOut(lua_settop0(cv.W, c),
                      IF cv.val = NULL THEN "NULL" ELSE "value", cv.val,
                      IF cv.val = NULL
                        THEN Exc("TypeError", "failed to convert globals table", -1)
                        ELSE NoExc)

LuaState_require(W, s, args) ==
  LET c == W.st[s].LuaState
      f == W.ctx[c].globals["require"]
      W1 == lua_push(W, c, f)
  IN IF f.t = "nil"
       THEN CallOut(lua_pop(W1, c, 1), "NULL", NULL, <<>>,
                    Exc("RuntimeError", "require is not defined", -1),
                    [tries |-> 0], NoPcall, FALSE)
       ELSE LuaCall(W1, s, args)

\* ------------------------------------------------------------- the actions
\* a slot no object is ever made in
Off(slot) == [slot EXCEPT !.mem = "off"]

Quiet ==
  /\ res = NoRes
  /\ crashed = FALSE
  /\ badUnref = FALSE
  /\ leaked = FALSE
  /\ gstate = 0
  /\ hist = [p \in ProxyIds |-> NoHist]

Init ==
  /\ st = [s \in StateIds |-> IF s <= SoloStates THEN NoState
                                                ELSE Off(NoState)]
  /\ ctx = [c \in CtxIds |-> NoCtx]
  /\ px = [p \in ProxyIds |-> IF p <= SoloProxies THEN NoProxy
                                                 ELSE Off(NoProxy)]
  /\ Quiet

\* the operations that return without resetting the Guest stack are tried on
\* stacks that hold at most MaxStale entries already
Shallow(c) == IF c = 0 THEN TRUE ELSE Len(ctx[c].stack) <= MaxStale

\* Host values handed in as arguments, keys and values
LiveProxies == {PyProxy(p) : p \in {q \in ProxyIds : px[q].mem = "live"}}
ArgLists == {<<>>, <<PyStr("_G")>>, <<PyInt(1), PyNone>>}
            \cup {<<o>> : o \in LiveProxies}
ArgVals == {PyNone, PyInt(1), PyFloat(5), PyStr("_G")} \cup LiveProxies
RichArgLists == UNION {[1..n -> ArgVals] : n \in 0..MaxArgs}
AttrVals == {PyStr("require"), PyStr("x"), PyNone}
SetVals == {PyInt(1), PyNone}
NextOutcomes == {"go", "fault", "crash"}

Open(s) == st[s].mem = "live" /\ st[s].held
Live(p) == px[p].mem = "live"
CtxOf(p) == st[px[p].state].LuaState

RunRes(op, s, r) ==
  [NoRes EXCEPT !.op = op, !.s = s, !.c = st[s].LuaState, !.kind = r.kind,
                !.val = r.val, !.exc = r.exc]

CallRes(op, s, p, c, base, args, r) ==
  [NoRes EXCEPT !.op = op, !.s = s, !.p = p, !.c = c, !.kind = r.kind,
                !.val = r.val, !.items = r.items, !.exc = r.exc,
                !.args = args, !.base = base, !.tries = r.tries,
                !.pcalled = r.pcalled, !.pstatus = r.pstatus,
                !.recv = r.recv, !.rets = r.rets, !.deref = r.callee,
                !.guestop = r.pcalled]

\* a call through LuaCall returned r; Py_DECREF(NULL) ends the process
CallCommit(op, s, p, c, base, args, r) ==
  IF r.crash THEN Crash(op, s, p)
  ELSE Commit(r.W, CallRes(op, s, p, c, base, args, r))

ProxyRes(op, p, r) ==
  [NoRes EXCEPT !.op = op, !.s = px[p].state, !.p = p, !.c = CtxOf(p),
                !.kind = r.kind, !.val = r.val, !.exc = r.exc,
                !.deref = r.deref, !.guestop = r.guestop]

\* lua.new_state(), lua.LuaState(): tp_new, then tp_init
NewState(s, oc) ==
  /\ ~crashed
  /\ st[s].mem = "free"
  /\ LET r == PyObject_CallObject(World, s, oc, TRUE)
     IN Commit(r.W, [NoRes EXCEPT !.op = "new_state", !.s = s,
                                  !.c = IF r.obj = 0 THEN 0
                                        ELSE r.W.st[s].LuaState,
                                  !.kind = IF r.obj = 0 THEN "NULL"
                                                        ELSE "value",
                                  !.exc = r.exc])

\* LuaState.__new__(LuaState): tp_new alone
RawNew(s) ==
  /\ ~crashed
  /\ st[s].mem = "free"
  /\ Commit(PyType_GenericNew(World, s),
            [NoRes EXCEPT !.op = "tp_new", !.s = s, !.kind = "value"])

\* state.__init__(): tp_init on an object that exists
Reinit(s, su) ==
  /\ ~crashed
  /\ Open(s)
  /\ LET i == LuaStateObject_init(World, s, su)
     IN Commit(i.W, [NoRes EXCEPT !.op = "tp_init", !.s = s, !.exc = i.exc])

\* the Host drops its own reference to the instance
DropState(s) ==
  /\ ~crashed
  /\ Open(s)
  /\ Commit(DecrefState([World EXCEPT !.st[s].held = FALSE], s),
            [NoRes EXCEPT !.op = "drop_state", !.s = s])

Execute(s, src) ==
  /\ ~crashed
  /\ Open(s)
  /\ IF st[s].LuaState = 0 THEN Crash("execute", s, 0)
     ELSE LET r == LuaState_run(World, s, src, FALSE)
          IN Commit(r.W, [RunRes("execute", s, r) EXCEPT !.args = <<src>>])

Eval(s, src) ==
  /\ ~crashed
  /\ Open(s)
  /\ IF st[s].LuaState = 0 THEN Crash("eval", s, 0)
     ELSE LET r == LuaState_run(World, s, src, TRUE)
          IN Commit(r.W, [RunRes("eval", s, r) EXCEPT !.args = <<src>>])

Globals(s) ==
  /\ ~crashed
  /\ Open(s)
  /\ IF st[s].LuaState = 0 THEN Crash("globals", s, 0)
     ELSE LET r == LuaState_globals(World, s)
          IN Commit(r.W, RunRes("globals", s, r))

Require(s, args) ==
  /\ ~crashed
  /\ Open(s)
  /\ Shallow(st[s].LuaState)
  /\ IF st[s].LuaState = 0 THEN Crash("require", s, 0)
     ELSE CallCommit("require", s, 0, st[s].LuaState,
                     Len(ctx[st[s].LuaState].stack), args,
                     LuaState_require(World, s, args))

\* a proxy operation returned r, or the process died in it
ProxyCommit(op, p, r, hk) ==
  IF r.kind = "crash"
    THEN CrashIn(op, px[p].state, p,
                 IF Hooked(r.deref) /\ r.guestop THEN hk ELSE "none")
  ELSE Commit(r.W, [ProxyRes(op, p, r) EXCEPT
                      !.hook = IF Hooked(r.deref) /\ r.guestop
                                 THEN hk ELSE "none"])

GetAttr(p, attr, hk) ==
  /\ ~crashed
  /\ Live(p)
  /\ ProxyCommit("getattr", p, LuaObject_getattr(World, p, attr, hk), hk)

SetAttr(p, attr, value, hk) ==
  /\ ~crashed
  /\ Live(p)
  /\ LET r == LuaObject_setattr(World, p, attr, value, hk)
     IN IF r.kind = "crash"
          THEN CrashIn("setattr", px[p].state, p,
                       IF Hooked(r.deref) /\ r.guestop THEN hk ELSE "none")
        ELSE Commit(r.W, [ProxyRes("setattr", p, r) EXCEPT
                            !.args = <<attr, value>>,
                            !.hook = IF Hooked(r.deref) /\ r.guestop
                                       THEN hk ELSE "none"])

Str(p, hk) ==
  /\ ~crashed
  /\ Live(p)
  /\ ProxyCommit("str", p, LuaObject_str(World, p, hk), hk)

Length(p) ==
  /\ ~crashed
  /\ Live(p)
  /\ LET r == LuaObject_length(World, p)
     IN Commit(r.W, ProxyRes("length", p, r))

Call(p, args) ==
  /\ ~crashed
  /\ Live(p)
  /\ CallCommit("call", px[p].state, p, CtxOf(p), 0, args,
                LuaObject_call(World, p, args))

\* a next call returned r (rets keeps the entry lua_next produced)
IterCommit(p, r, H) ==
  IF r.kind = "crash" THEN Crash("next", px[p].state, p)
  ELSE CommitH(r.W, [ProxyRes("next", p, r) EXCEPT !.rets = r.entry], H)

IterNext(p, oc) ==
  /\ ~crashed
  /\ Live(p)
  /\ Shallow(CtxOf(p))
  /\ IterCommit(p, LuaObject_iternext(World, p, oc), hist)

\* the Host drops its last reference to the proxy: tp_dealloc
DropProxy(p) ==
  /\ ~crashed
  /\ Live(p)
  /\ Commit(LuaObject_dealloc(World, p),
            [NoRes EXCEPT !.op = "dealloc", !.p = p])

Next ==
  \/ \E s \in StateIds, oc \in InitCases : NewState(s, oc)
  \/ \E s \in StateIds : RawNew(s)
  \/ \E s \in StateIds, su \in SetupOutcomes : Reinit(s, su)
  \/ \E s \in StateIds : DropState(s)
  \/ \E s \in StateIds, src \in Sources : Execute(s, src)
  \/ \E s \in StateIds, src \in Sources : Eval(s, src)
  \/ \E s \in StateIds : Globals(s)
  \/ \E s \in StateIds, args \in ArgLists : Require(s, args)
  \/ \E p \in ProxyIds, attr \in AttrVals, hk \in HookOutcomes :
       GetAttr(p, attr, hk)
  \/ \E p \in ProxyIds, attr \in AttrVals, value \in SetVals,
        hk \in HookOutcomes :
       SetAttr(p, attr, value, hk)
  \/ \E p \in ProxyIds, hk \in HookOutcomes : Str(p, hk)
  \/ \E p \in ProxyIds : Length(p)
  \/ \E p \in ProxyIds, args \in RichArgLists : Call(p, args)
  \/ \E p \in ProxyIds, oc \in NextOutcomes : IterNext(p, oc)
  \/ \E p \in ProxyIds : DropProxy(p)

Spec == Init /\ [][Next]_vars

\* ------------------------------------------- two instances, two proxies
PairSrcs == {[form |-> "assign", key |-> "require", vals |-> <<LNil>>]}
PairKeys == {PyStr("x")}
PairVals == {PyFloat(5)}
PairArgs == {<<o>> : o \in LiveProxies}

InitPair ==
  /\ st = [s \in StateIds |-> NoState]
  /\ ctx = [c \in CtxIds |-> NoCtx]
  /\ px = [p \in ProxyIds |-> NoProxy]
  /\ Quiet

\* next(it), one iteration at a time, begun on an empty Guest stack
PairNext(p) ==
  /\ Live(p)
  /\ ctx[CtxOf(p)].stack = <<>>
  /\ \A q \in ProxyIds : q # p => px[q].refiter = LUA_NOREF
  /\ IterNext(p, "go")

NextPair ==
  \/ \E s \in StateIds, oc \in InitCases : NewState(s, oc)
  \/ \E s \in StateIds : Globals(s)
  \/ \E s \in StateIds, src \in PairSrcs : Execute(s, src)
  \/ \E p \in ProxyIds, attr \in PairKeys : GetAttr(p, attr, "return")
  \/ \E p \in ProxyIds, attr \in PairKeys, value \in PairVals :
       SetAttr(p, attr, value, "return")
  \/ \E p \in ProxyIds, args \in PairArgs : Call(p, args)
  \/ \E p \in ProxyIds : PairNext(p)
  \/ \E p \in ProxyIds : DropProxy(p)

SpecPair == InitPair /\ [][NextPair]_vars

\* ------------------------------------------------ the module-level calls
\* lua.execute, lua.eval, lua.globals, lua.require: the state method, on what
\* GetGlobalLuaState() returns; a NULL self is dereferenced
ModOps == {"lua.execute", "lua.eval", "lua.globals", "lua.require"}

\* Lua_execute (eval = FALSE), Lua_eval (eval = TRUE)
Lua_run(src, eval, oc) ==
  /\ ~crashed
  /\ LET op == IF eval THEN "lua.eval" ELSE "lua.execute"
         g == GetGlobalLuaState(World, oc)
     IN IF g.obj = 0
          THEN Commit([g.W EXCEPT !.dead = TRUE], [NoRes EXCEPT !.op = op])
          ELSE LET r == LuaState_run(g.W, g.obj, src, eval)
               IN Commit(r.W, [RunRes(op, g.obj, r) EXCEPT
                                 !.c = r.W.st[g.obj].LuaState])

Lua_globals(oc) ==
  /\ ~crashed
  /\ LET g == GetGlobalLuaState(World, oc)
     IN IF g.obj = 0
          THEN Commit([g.W EXCEPT !.dead = TRUE],
                      [NoRes EXCEPT !.op = "lua.globals"])
          ELSE LET r == LuaState_globals(g.W, g.obj)
               IN Commit(r.W, [RunRes("lua.globals", g.obj, r) EXCEPT
                                 !.c = r.W.st[g.obj].LuaState])

Lua_require(args, oc) ==
  /\ ~crashed
  /\ LET g == GetGlobalLuaState(World, oc)
     IN IF g.obj = 0
          THEN Commit([g.W EXCEPT !.dead = TRUE],
                      [NoRes EXCEPT !.op = "lua.require"])
          ELSE CallCommit("lua.require", g.obj, 0, g.W.st[g.obj].LuaState,
                          Len(g.W.ctx[g.W.st[g.obj].LuaState].stack), args,
                          LuaState_require(g.W, g.obj, args))

NextModule ==
  \/ \E src \in Sources, eval \in BOOLEAN, oc \in InitCases :
       Lua_run(src, eval, oc)
  \/ \E oc \in InitCases : Lua_globals(oc)
  \/ \E args \in ArgLists, oc \in InitCases : Lua_require(args, oc)
  \/ \E s \in StateIds, oc \in InitCases : NewState(s, oc)
  \/ \E s \in StateIds : DropState(s)
  \/ \E p \in ProxyIds : DropProxy(p)

SpecModule == InitPair /\ [][NextModule]_vars

\* ------------------------------------------------- iteration on its own
\* one instance whose globals table holds 0 to 3 entries and is not changed;
\* up to MaxProxies proxies over it, each iterated for MaxPasses passes
MaxPasses == 2

EmptySrc == [form |-> "empty", key |-> "", vals |-> <<>>]
IterTables == [Keys -> {LNil, LNum(2)}]

OneState ==
  [s \in StateIds |->
     IF s = 1 THEN [mem |-> "live", LuaState |-> 1, refcnt |-> 1, held |-> TRUE]
              ELSE Off(NoState)]

InitIter ==
  /\ st = OneState
  /\ \E g \in IterTables :
       ctx = [c \in CtxIds |->
                IF c = 1 THEN [FreshCtx EXCEPT !.globals = g] ELSE NoCtx]
  /\ px = [p \in ProxyIds |-> NoProxy]
  /\ Quiet

\* the history after a next call on p returned r: a call made without a
\* cursor starts a pass, a call that produced no entry ends one
Tracked(p, r) ==
  [hist EXCEPT ![p] =
     IF Len(r.entry) = 2
       THEN [@ EXCEPT !.trail = IF px[p].refiter = LUA_NOREF
                                  THEN <<r.val>> ELSE Append(@, r.val)]
       ELSE [trail |-> IF px[p].refiter = LUA_NOREF THEN <<>> ELSE @.trail,
             passes |-> @.passes + 1]]

\* next(it) on a table nothing changes
Iterate(p) ==
  /\ ~crashed
  /\ Live(p)
  /\ hist[p].passes < MaxPasses
  /\ IterCommit(p, LuaObject_iternext(World, p, "go"),
                Tracked(p, LuaObject_iternext(World, p, "go")))

\* the Host drops the proxy; the slot's history starts over
IterDrop(p) ==
  /\ ~crashed
  /\ Live(p)
  /\ CommitH(LuaObject_dealloc(World, p),
             [NoRes EXCEPT !.op = "dealloc", !.p = p],
             [hist EXCEPT ![p] = NoHist])

NextIter ==
  \/ Globals(1)
  \/ Execute(1, EmptySrc)
  \/ \E p \in ProxyIds : Iterate(p)
  \/ \E p \in ProxyIds : IterDrop(p)

SpecIter == InitIter /\ [][NextIter]_vars

\* ------------------------------------------- calls that run out of memory
\* One instance, proxies of a Guest function that returns its arguments, and
\* calls in which the fail-th allocation of a proxy object returns NULL.
MaxFail == 2

EchoSrc == [form |-> "exprs", key |-> "", vals |-> <<LFun("echo")>>]

InitCall ==
  /\ st = OneState
  /\ ctx = [c \in CtxIds |-> IF c = 1 THEN FreshCtx ELSE NoCtx]
  /\ px = [p \in ProxyIds |-> NoProxy]
  /\ Quiet

\* p(*args) with PyObject_New failing at its fail-th call (0: never)
CallFailing(p, args, fail) ==
  /\ ~crashed
  /\ Live(p)
  /\ LET r == LuaObject_call([World EXCEPT !.fail = fail], p, args)
     IN IF r.crash THEN Crash("call", px[p].state, p)
        ELSE Commit(r.W, [CallRes("call", px[p].state, p, CtxOf(p), 0,
                                  args, r) EXCEPT !.fail = fail])

NextCall ==
  \/ Eval(1, EchoSrc)
  \/ \E p \in ProxyIds, args \in RichArgLists, fail \in 0..MaxFail :
       CallFailing(p, args, fail)
  \/ \E p \in ProxyIds : DropProxy(p)

SpecCall == InitCall /\ [][NextCall]_vars

\* ------------------------------------------------ the Value Converter alone
\* primitive Guest values: booleans, 2.0, -3.0, 2.5, -2.5 and strings
GuestPrims == {LBool(TRUE), LBool(FALSE), LNum(4), LNum(-6), LNum(5),
               LNum(-5), LStr("a"), LStr("")}
PrimStacks == UNION {[1..n -> GuestPrims] : n \in 1..MaxDepth}
ConvIndexes == (1..MaxDepth) \cup {-i : i \in 1..MaxDepth}

\* one open instance whose stack holds primitive values
InitConv ==
  /\ st = [s \in StateIds |->
             IF s = 1 THEN [mem |-> "live", LuaState |-> 1, refcnt |-> 1,
                            held |-> TRUE]
                      ELSE NoState]
  /\ \E stk \in PrimStacks :
       ctx = [c \in CtxIds |->
                IF c = 1 THEN [FreshCtx EXCEPT !.stack = stk] ELSE NoCtx]
  /\ px = [p \in ProxyIds |-> NoProxy]
  /\ Quiet

\* LuaConvert(state, n) at an acceptable index n
ConvertAt(n) ==
  /\ AbsIndex(ctx[1].stack, n) \in 1..Len(ctx[1].stack)
  /\ LET cv == LuaConvert(World, 1, n)
     IN Commit(cv.W, [NoRes EXCEPT !.op = "convert", !.s = 1, !.c = 1,
                                   !.kind = "value", !.val = cv.val,
                                   !.base = n])

NextConv == \E n \in ConvIndexes : ConvertAt(n)

SpecConv == InitConv /\ [][NextConv]_vars

\* ---------------------------------------------------------------- properties
PublicOps == {"execute", "eval", "globals", "require", "getattr", "setattr",
              "call", "str", "length", "next"}
ProxyOps == {"getattr", "setattr", "call", "str", "length", "next"}

\* the last operation returned to the Host (the process did not die in it)
Returned(ops) == res.op \in ops /\ ~crashed /\ res.c # 0

\* the last operation went through LuaCall
ThroughLuaCall ==
  /\ Returned({"call", "require"})
  /\ res.exc.msg # "require is not defined"

\* C1: when a public operation of a Runtime Instance or of a Foreign Object
\* Proxy returns, with success or with failure, the Guest value stack of the
\* instance has depth 0.
C1_StackEmptyAfterEveryOperation ==
  Returned(PublicOps) => Len(ctx[res.c].stack) = 0

\* C3: whenever LuaCall returns, on every path, the Guest stack is empty; a
\* call whose protected call failed returns a Host exception that carries the
\* Guest error message and leaves no error value on the stack.
C3_LuaCallResetsStack ==
  ThroughLuaCall =>
    /\ ctx[res.c].stack = <<>>
    /\ (res.pcalled /\ res.pstatus # 0) =>
         /\ res.kind = "NULL"
         /\ res.exc.type = "Exception"
         /\ res.exc.text = ToText(res.rets[1])

\* C4: every proxy operation dereferences the registry handle first and, when
\* the value it finds is nil, fails with the runtime error 'lost reference'
\* without performing the Guest operation.
C4_NilDerefIsLostReference ==
  (Returned(ProxyOps) /\ res.deref = LNil) =>
    /\ res.exc.type = "RuntimeError"
    /\ res.exc.msg = "lost reference"
    /\ ~res.guestop

\* C5: a Runtime Instance that exists and is not torn down has a non-null
\* Guest context pointer, so that execute, eval, globals and require never
\* run against a null context.
C5_ContextPointerNeverNull ==
  \A s \in StateIds : st[s].mem = "live" => st[s].LuaState # 0

\* C6: the Runtime Instance that owns a live proxy is not closed: the object
\* is live, and neither the context it points to nor the context the proxy
\* was created in has been closed.
C6_OwnerOutlivesProxy ==
  \A p \in ProxyIds :
    px[p].mem = "live" =>
      /\ st[px[p].state].mem = "live"
      /\ st[px[p].state].refcnt >= 1
      /\ st[px[p].state].LuaState # 0
      /\ ctx[st[px[p].state].LuaState].open = "open"
      /\ ctx[px[p].born].open = "open"

\* C6 happens: the Host has dropped its own reference to an instance that a
\* live proxy still owns, and the instance's context is still open
C6_Witness ==
  \E p \in ProxyIds :
    /\ px[p].mem = "live"
    /\ ~st[px[p].state].held
    /\ ctx[st[px[p].state].LuaState].open = "open"

\* C7: over the life of a proxy every registry handle allocated for it is
\* released exactly once: no release hits a slot that is not an allocated
\* handle of the proxy, and no handle of a destroyed proxy stays allocated.
C7_HandlesReleasedExactlyOnce == ~badUnref /\ ~leaked

\* Host value pv stands for Guest value lv: same kind and same value (a
\* number without fraction is the integer, one with a fraction the float)
Matches(lv, pv) ==
  CASE lv.t = "nil" -> pv = PyNone
    [] lv.t = "boolean" -> pv = PyBool(lv.n # 0)
    [] lv.t = "string" -> pv = PyStr(lv.s)
    [] lv.t = "number" ->
         IF lv.n = 2 * ToLong(lv.n) THEN pv = PyInt(ToLong(lv.n))
                                    ELSE pv = PyFloat(lv.n)
    [] lv.t = "userdata" /\ lv.s = "py" -> pv = PyObj(lv.n)
    [] OTHER -> pv.t = "proxy"

\* Guest value lv is what the Host argument pv is handed over as
Received(lv, pv) ==
  CASE pv.t = "bool" -> lv = LBool(pv.n # 0)
    [] pv.t = "int" -> lv = LNum(2 * pv.n)
    [] pv.t = "float" -> lv = LNum(pv.n)
    [] pv.t = "str" -> lv = LStr(pv.s)
    [] pv.t = "proxy" -> lv.t \in {"table", "function", "nil"}
    [] OTHER -> lv.t = "userdata"

\* what LuaConvert makes of the primitive Guest value v alone on the stack
ConvertedAlone(v) ==
  LuaConvert([World EXCEPT !.ctx[res.c].stack = <<v>>], res.s, 1).val

\* the last operation was a proxy call (LuaObject_call empties the stack, so
\* the callee is alone on it) whose protected call succeeded
CalleeAloneReturned ==
  Returned({"call"}) /\ res.pcalled /\ res.pstatus = 0

\* C8: a call with the callee alone on the stack returns Host none when the
\* callee returns no result, the single converted value when it returns one,
\* and a tuple as long as the result list when it returns more than one.
C8_ResultShape ==
  CalleeAloneReturned =>
    CASE Len(res.rets) = 0 -> res.kind = "value" /\ res.val = PyNone
      [] Len(res.rets) = 1 ->
           /\ res.kind = "value"
           /\ IF res.rets[1].t \in {"table", "function"}
                THEN res.val.t = "proxy"
                ELSE res.val = ConvertedAlone(res.rets[1])
      [] OTHER -> res.kind = "tuple" /\ Len(res.items) = Len(res.rets)

\* C8 happens: a callee alone on the stack returned two results
C8_Witness ==
  CalleeAloneReturned /\ Len(res.rets) = 2 /\ res.kind = "tuple"

\* C9: order is preserved both ways: the i-th Host argument is the i-th
\* argument the callee receives, and the i-th result of the callee is the
\* i-th element of the Host result tuple.
C9_OrderPreserved ==
  (ThroughLuaCall /\ res.pcalled) =>
    /\ Len(res.recv) = Len(res.args)
    /\ \A i \in 1..Len(res.args) : Received(res.recv[i], res.args[i])
    /\ (res.pstatus = 0 /\ res.kind = "tuple") =>
         /\ Len(res.items) = Len(res.rets)
         /\ \A i \in 1..Len(res.rets) : Matches(res.rets[i], res.items[i])

\* the first position (0-based) of args that cannot be converted, or -1
FirstBad(args) ==
  IF \E i \in 1..Len(args) : args[i] = PyNone
    THEN Min({i \in 1..Len(args) : args[i] = PyNone}) - 1
    ELSE -1

\* C10: when converting the argument at position i fails, LuaCall aborts: no
\* later argument is converted, the protected call is not performed, the
\* Guest stack is empty, and the Host gets a TypeError that names i.
C10_ArgumentFailureAborts ==
  (ThroughLuaCall /\ FirstBad(res.args) >= 0) =>
    /\ res.tries = FirstBad(res.args) + 1
    /\ ~res.pcalled
    /\ ctx[res.c].stack = <<>>
    /\ res.kind = "NULL"
    /\ res.exc = Exc("TypeError", "failed to convert argument #",
                     FirstBad(res.args))

\* C10 happens: the second of two arguments could not be converted
C10_Witness ==
  ThroughLuaCall /\ Len(res.args) = 2 /\ FirstBad(res.args) = 1

\* C2: a primitive value on the Guest stack converts back to the Host value
\* equal to it, whatever index it is read from: a number without fraction as
\* the integer of that value, a number with a fraction as the float of that
\* value.
C2_PrimitiveRoundTrip ==
  res.op = "convert" =>
    Matches(index2adr(ctx[res.c].stack, res.base), res.val)

\* the operations that run a Guest operation inside a recoverable guard
GuardedOps == {"getattr", "setattr", "str", "next"}

\* the last operation ran a guard and the Guest raised a fatal error in it:
\* py_lua_panic made a RuntimeError of the error value
Faulted ==
  /\ Returned(GuardedOps)
  /\ res.guestop
  /\ res.exc.type = "RuntimeError"
  /\ res.exc.text # ""

C12_FaultContained ==
  [][(Faulted' /\ res'.deref.t = "table") =>
       /\ res'.kind # "value"
       /\ ctx' = ctx
       /\ px' = px
       /\ st' = st]_vars

\* a next call produced an entry
Yielded == Returned({"next"}) /\ Len(res.rets) = 2

\* the value the cursor handle of the last operation's proxy names
Cursor == ctx[res.c].reg[px[res.p].refiter].val

\* C13 as written: a successful next returns the converted value component
\* of the entry lua_next produced, and stores the entry's key as the cursor.
C13_NextReturnsValue ==
  Yielded =>
    /\ Matches(res.rets[2], res.val)
    /\ px[res.p].refiter \in Handles
    /\ Cursor = res.rets[1]

\* C13, amended: a successful next returns the converted key component of
\* the entry lua_next produced (the value component is dropped), and stores
\* that key as the proxy's new cursor.
C13_NextReturnsKey ==
  Yielded =>
    /\ Matches(res.rets[1], res.val)
    /\ px[res.p].refiter \in Handles
    /\ Cursor = res.rets[1]

\* C13 happens: a next call produced an entry whose value is a number
C13_Witness ==
  Yielded /\ res.kind = "value" /\ res.rets[2].t = "number"

\* the keys of the entries of the globals table of context c, as the Host
\* sees them, in traversal order
HasEntry(c, k) == ctx[c].globals[k] # LNil
EntryKeys(c) == {PyStr(k) : k \in {j \in Keys : HasEntry(c, j)}}
RECURSIVE EntrySeq(_, _)
EntrySeq(c, i) ==
  IF i > Len(KeyOrder) THEN <<>>
  ELSE IF HasEntry(c, KeyOrder[i])
    THEN <<PyStr(KeyOrder[i])>> \o EntrySeq(c, i + 1)
    ELSE EntrySeq(c, i + 1)

Items(p) == {hist[p].trail[i] : i \in 1..Len(hist[p].trail)}

\* the last operation was a next call on p that signalled exhaustion
Exhausted(p) ==
  /\ Returned({"next"})
  /\ res.p = p
  /\ res.rets = <<>>
  /\ res.kind = "NULL"
  /\ res.exc = NoExc

\* C14: on a table of n entries (0 to 3) that is not modified, the next
\* calls on a fresh proxy yield items for distinct entries of the table
\* only, and the call that signals exhaustion comes after exactly n items,
\* one per entry (for n = 0 it is the first call).
C14_YieldsEachEntryOnce ==
  \A p \in ProxyIds : Live(p) =>
    /\ Cardinality(Items(p)) = Len(hist[p].trail)
    /\ Items(p) \subseteq EntryKeys(CtxOf(p))
    /\ Exhausted(p) =>
         /\ Items(p) = EntryKeys(CtxOf(p))
         /\ Len(hist[p].trail) = Cardinality(EntryKeys(CtxOf(p)))

\* C14 happens: the fourth call on a table of three entries
C14_Witness ==
  \E p \in ProxyIds :
    Live(p) /\ Exhausted(p) /\ Len(hist[p].trail) = 3 /\ hist[p].passes = 1

\* C15: when a next call signals exhaustion the proxy's cursor handle has
\* been released and the proxy holds no cursor; the calls after it start
\* from the first entry again and yield the whole sequence a second time.
C15_RestartsAfterExhaustion ==
  \A p \in ProxyIds : Live(p) =>
    /\ Exhausted(p) =>
         /\ px[p].refiter = LUA_NOREF
         /\ HandlesOf(World, p) = {<<CtxOf(p), px[p].ref>>}
    /\ hist[p].passes >= 1 =>
         /\ hist[p].trail = SubSeq(EntrySeq(CtxOf(p), 1), 1,
                                   Len(hist[p].trail))
         /\ Exhausted(p) => hist[p].trail = EntrySeq(CtxOf(p), 1)

\* C15 happens: the second pass over a table of two entries ended
C15_Witness ==
  \E p \in ProxyIds :
    Live(p) /\ Exhausted(p) /\ hist[p].passes = 2 /\ Len(hist[p].trail) = 2

\* the cursor of proxy q: its handle and the key the handle names
CursorOf(P, C, q) ==
  <<P[q].refiter,
    IF P[q].refiter \in Handles
      THEN C[st[P[q].state].LuaState].reg[P[q].refiter] ELSE FreeSlot>>

\* C16: the cursor belongs to the proxy: a next call on one proxy leaves
\* the cursor handle and the cursor position of every other proxy over the
\* same table unchanged, and interleaved iterations over two proxies each
\* yield every entry of the table before they signal exhaustion.
C16_CursorPerProxy ==
  [][\A p, q \in ProxyIds :
       (res'.op = "next" /\ res'.p = p /\ q # p /\ Live(q)) =>
         /\ CursorOf(px', ctx', q) = CursorOf(px, ctx, q)
         /\ hist'[q] = hist[q]
         /\ Exhausted(p)' => hist'[p].trail = EntrySeq(CtxOf(p), 1)]_vars

\* C16 happens: two proxies over the same table are both in the middle of
\* an iteration, at different entries
C16_Witness ==
  /\ res.op = "next"
  /\ \A p \in ProxyIds : Live(p) /\ px[p].refiter \in Handles
  /\ \E p, q \in ProxyIds :
       CursorOf(px, ctx, p)[2].val # CursorOf(px, ctx, q)[2].val

\* C17: a set on a proxy whose handle names a value that is no table (and
\* is not lost: C4) fails with the type error "Lua object is not a table"
\* whatever the key and the value are, also ones that cannot be converted,
\* runs no Guest operation, and leaves the globals and the registry of
\* every context as they were.
C17_SetOnNonTableRejected ==
  [][(res'.op = "setattr" /\ ~crashed'
        /\ res'.deref.t \notin {"table", "nil", "none"}) =>
       /\ res'.exc = Exc("TypeError", "Lua object is not a table", -1)
       /\ res'.val = PyInt(-1)
       /\ ~res'.guestop
       /\ px' = px
       /\ \A c \in CtxIds :
            /\ ctx'[c].globals = ctx[c].globals
            /\ ctx'[c].reg = ctx[c].reg]_vars

\* C17 happens: a set on a function proxy with a key that cannot be
\* converted
C17_Witness ==
  /\ Returned({"setattr"})
  /\ res.deref.t = "function"
  /\ res.args[1] = PyNone

\* the live proxies whose handle names the globals table of their instance
GlobalsProxies ==
  {p \in ProxyIds :
     /\ Live(p)
     /\ px[p].ref \in Handles
     /\ ctx[CtxOf(p)].reg[px[p].ref].val = GlobalsTable}

\* the last operation set a key through proxy p and succeeded
SetThrough(p) ==
  Returned({"setattr"}) /\ res.p = p /\ res.val = PyInt(0) /\ res.guestop

\* C18: two proxies that globals() returned on the same instance are two
\* objects with two different registry handles for the one globals table:
\* after a key was set through one of them, a get of that key through the
\* other returns the value that was set.
C18_GlobalsProxiesShareTable ==
  \A p, q \in GlobalsProxies :
    (p # q /\ px[p].state = px[q].state) =>
      /\ px[p].ref # px[q].ref
      /\ SetThrough(p) =>
           LuaObject_getattr(World, q, res.args[1], "return").val = res.args[2]

\* the instance the step's operation was issued on (a proxy's owner for a
\* proxy operation or a proxy's destruction)
Actor == IF res'.op = "dealloc" THEN px[res'.p].state ELSE res'.s

\* C19: an operation on an instance, or on a proxy of it, leaves the
\* context (globals, registry and stack) of every other instance, the
\* pointer to it and the proxies of the other instance unchanged.
C19_InstancesIsolated ==
  [][\A b \in StateIds :
       (st[b].mem = "live" /\ st[b].LuaState # 0 /\ Actor # b) =>
         /\ st'[b].LuaState = st[b].LuaState
         /\ ctx'[st[b].LuaState] = ctx[st[b].LuaState]
         /\ \A q \in ProxyIds :
              (Live(q) /\ px[q].state = b) => px'[q] = px[q]]_vars

\* C19 happens: two open instances whose globals differ, after a call on a
\* proxy of one that was handed a proxy of the other
C19_Witness ==
  /\ \A s \in StateIds : Open(s) /\ st[s].LuaState # 0
  /\ ctx[st[1].LuaState].globals # ctx[st[2].LuaState].globals
  /\ Returned({"call"})
  /\ Len(res.args) = 1
  /\ res.args[1].t = "proxy"
  /\ px[res.args[1].n].state # res.s

\* the default instance exists and its context is open
DefaultOpen ==
  /\ gstate # 0
  /\ st[gstate].mem = "live"
  /\ st[gstate].LuaState # 0
  /\ ctx[st[gstate].LuaState].open = "open"

\* C20: the default instance is created by the first module-level call and
\* never again: once it exists it stays the same object with the same open
\* context, and every module-level execute, eval, globals and require has
\* run against it.
C20_SingleDefaultInstance ==
  [][/\ gstate # 0 =>
          /\ gstate' = gstate
          /\ st'[gstate].LuaState = st[gstate].LuaState
     /\ DefaultOpen => DefaultOpen'
     /\ res'.op \in ModOps => (DefaultOpen' /\ res'.s = gstate')]_vars

\* C21: an instance is opened once: from the step that gives it a context
\* to its teardown it keeps that same context (the initializer run again
\* on an open instance does not replace it), and a context that was closed
\* or given up is never the context of the instance again.
C21_OpenOnceSameContext ==
  [][\A s \in StateIds :
       (st[s].mem = "live" /\ st[s].LuaState # 0 /\ st'[s].mem = "live") =>
         st'[s].LuaState = st[s].LuaState]_vars

\* the last operation ran the initializer and the setup of the Guest context
\* failed in it: the initializer set its exception
SetupFailed ==
  /\ ~crashed
  /\ res.op \in {"new_state", "tp_init"}
  /\ res.exc = OpenFailExc

\* C22: when the setup of the Guest context fails during construction, the
\* constructor fails: the Host caller is handed no instance, and no open
\* instance is left in the slot it constructed.
C22_SetupFailureNoInstance ==
  (SetupFailed /\ res.op = "new_state") =>
      (res.kind = "NULL" /\ ~(st[res.s].mem = "live" /\ st[res.s].LuaState # 0))

\* the last step was execute or eval of src, returned to the Host
Ran(src, eval) ==
  /\ ~crashed'
  /\ res'.op = (IF eval THEN "eval" ELSE "execute")
  /\ res'.args = <<src>>

\* the text, with eval's prefix, is not a Guest chunk
SyntaxError(src, eval) ==
  \/ src.form = "garbage"
  \/ eval /\ src.form \in {"return", "assign"}
  \/ ~eval /\ src.form = "exprs"

\* C23: execute and eval turn a compile error and a runtime error into a
\* Host exception with no result value and leave the Guest stack empty; on
\* a compile error nothing of the source has run, so the Guest globals are
\* the ones of before.
C23_RunErrorsSurface ==
  [][\A src \in Sources, eval \in BOOLEAN :
       Ran(src, eval) =>
         LET c == res'.c
         IN /\ SyntaxError(src, eval) =>
                 /\ res'.kind = "NULL" /\ res'.val = NULL
                 /\ res'.exc.type = "RuntimeError"
                 /\ res'.exc.msg = "error loading code: "
                 /\ ctx'[c].stack = <<>>
                 /\ ctx'[c].globals = ctx[c].globals
            /\ src.form = "error" =>
                 /\ res'.kind = "NULL" /\ res'.val = NULL
                 /\ res'.exc.type = "RuntimeError"
                 /\ res'.exc.msg = "error executing code: "
                 /\ res'.exc.text = "boom"
                 /\ ctx'[c].stack = <<>>]_vars

\* a compile error came back from a context whose globals had been changed
\* before
C23_Witness ==
  /\ ~crashed
  /\ res.op \in {"execute", "eval"}
  /\ res.exc.type = "RuntimeError"
  /\ res.exc.msg = "error loading code: "
  /\ res.args[1].form = "garbage"
  /\ ctx[res.c].stack = <<>>
  /\ ctx[res.c].globals # FreshCtx.globals

\* the results that need a proxy object, by their index in the result tuple
NeedProxy(rets) == {i \in 1..Len(rets) : rets[i].t \in {"table", "function"}}

\* the zero-based index of the result whose conversion fails when the
\* fail-th allocation of a proxy object fails, -1 when none does
FailsAt(rets, fail) ==
  IF fail = 0 \/ Cardinality(NeedProxy(rets)) < fail THEN -1
  ELSE (CHOOSE i \in NeedProxy(rets) :
          Cardinality({j \in NeedProxy(rets) : j < i}) = fail - 1) - 1

\* the registry slots allocated in context c
UsedHandles(L) == {h \in Handles : L.reg[h].used}

\* C24: when the conversion of result k of a call with several results
\* fails, the call returns no value and a TypeError "failed to convert
\* return #k", the Guest stack is empty, and the proxies made for the
\* results before k are gone with their handles released: the proxies and
\* the allocated handles are those of before the call.
C24_FailedResultReleased ==
  [][(/\ ~crashed'
      /\ res'.op = "call" /\ res'.fail > 0
      /\ res'.pcalled /\ res'.pstatus = 0
      /\ Len(res'.rets) > 1
      /\ FailsAt(res'.rets, res'.fail) >= 0) =>
        /\ res'.kind = "NULL" /\ res'.val = NULL /\ res'.items = <<>>
        /\ res'.exc = Exc("TypeError", "failed to convert return #",
                          FailsAt(res'.rets, res'.fail))
        /\ ctx'[res'.c].stack = <<>>
        /\ px' = px
        /\ UsedHandles(ctx'[res'.c]) = UsedHandles(ctx[res'.c])
        /\ st'[res'.s].refcnt = st[res'.s].refcnt]_vars

\* a call failed at its second result after a proxy was made for the first
C24_Witness ==
  /\ ~crashed
  /\ res.op = "call" /\ res.fail = 2
  /\ Len(res.rets) = 2
  /\ FailsAt(res.rets, res.fail) = 1
  /\ res.exc.pos = 1

\* what LuaConvert makes of the primitive Guest value v read at index -1
ConvertedOnTop(v) ==
  LuaConvert([World EXCEPT !.ctx[res.c].stack = <<v>>], res.s, -1).val

\* the last operation was execute or eval of a chunk that returns the list
\* of values vals, and it came back to the Host
RanValues(vals) ==
  /\ Returned({"execute", "eval"})
  /\ res.args[1].form = (IF res.op = "eval" THEN "exprs" ELSE "return")
  /\ res.args[1].vals = vals

\* the return statement and the expression list of the same values
ReturnSrc(vals) == [form |-> "return", key |-> "", vals |-> vals]
ExprSrc(vals) == [form |-> "exprs", key |-> "", vals |-> vals]

\* C25: execute and eval ask the protected call for one result: a chunk
\* that returns nothing gives Host none, a chunk that returns values gives
\* the first one converted and nothing else (the stack is empty afterwards);
\* eval of a text does what execute of "return " and the text does.
C25_OneResult ==
  /\ (Returned({"execute", "eval"}) /\ res.args[1].form = "empty") =>
        (res.kind = "value" /\ res.val = PyNone /\ ctx[res.c].stack = <<>>)
  /\ \A vals \in SrcLists :
       RanValues(vals) =>
         /\ res.kind = "value"
         /\ ctx[res.c].stack = <<>>
         /\ IF vals[1].t \in {"table", "function"}
              THEN /\ res.val.t = "proxy"
                   /\ ctx[res.c].reg[px[res.val.n].ref].val = vals[1]
              ELSE res.val = ConvertedOnTop(vals[1])
  /\ \A s \in StateIds, vals \in SrcLists :
       (~crashed /\ Open(s) /\ st[s].LuaState # 0) =>
         LuaState_run(World, s, ReturnSrc(vals), FALSE)
           = LuaState_run(World, s, ExprSrc(vals), TRUE)

\* a chunk returning two values came back with the first one only
C25_Witness ==
  /\ RanValues(<<LNum(2), LTab(0)>>)
  /\ res.val = PyInt(1)
  /\ ctx[res.c].stack = <<>>

\* the last operation was require and its protected call succeeded
RequireReturned ==
  Returned({"require"}) /\ res.pcalled /\ res.pstatus = 0

\* C26: require returns the results of the Guest require call and nothing
\* else, whatever operations came before it: none for no result, the
\* converted value for one result, a tuple of the converted results for
\* several; no value left on the Guest stack by an earlier operation is part
\* of what it returns.
C26_RequireResultsOnly ==
  RequireReturned =>
    CASE Len(res.rets) = 0 -> res.kind = "value" /\ res.val = PyNone
      [] Len(res.rets) = 1 ->
           res.kind = "value" /\ Matches(res.rets[1], res.val)
      [] OTHER ->
           /\ res.kind = "tuple"
           /\ Len(res.items) = Len(res.rets)
           /\ \A i \in 1..Len(res.rets) : Matches(res.rets[i], res.items[i])

\* the last operation ran a guard, and the Guest metamethod it started
\* called a Host function that ran a guarded operation to its end; after
\* that the Guest raised a fatal error in the metamethod
RaisedAfterNestedGuard ==
  res.op \in GuardedOps /\ res.hook = "nested-raise"

\* C27: guards nest safely: a fatal error the Guest raises in a guarded
\* operation after a nested guarded operation has completed reaches the
\* catch branch of the outer guard, so the outer operation returns its
\* failure value with the RuntimeError of the error value; the jump buffer
\* does not name the guard that has returned.
C27_NestedGuardsSafe ==
  RaisedAfterNestedGuard =>
    /\ ~crashed
    /\ res.kind = "NULL"
    /\ res.exc = PanicExc("boom")

\* where the handle of proxy p leads in the state st, ctx, px: the context
\* of the owning instance, and the value in that context's registry at ref
Resolves(sts, ctxs, pxs, p) ==
  LET c == sts[pxs[p].state].LuaState
  IN [c |-> c, v |-> IF c = 0 THEN LNone ELSE ctxs[c].reg[pxs[p].ref].val]

\* C28: as long as a proxy lives, its handle resolves, in the current
\* context of its instance, to the value it was created for: no operation
\* changes the context it is resolved in or the value found there, and the
\* value is never nil.
C28_HandleResolvesForLife ==
  [][\A p \in ProxyIds :
       (px[p].mem = "live" /\ px'[p] = px[p] /\ ~crashed') =>
          /\ Resolves(st', ctx', px', p) = Resolves(st, ctx, px, p)
          /\ Resolves(st', ctx', px', p).c = px[p].born
          /\ Resolves(st', ctx', px', p).v # LNil]_vars

\* the last operation was a public operation or a construction, and it
\* came back to the Host
CameBack ==
  ~crashed /\ res.op \in PublicOps \cup {"new_state"}

\* the value the last operation returned is its failure value: NULL, or -1
\* from attribute set
ReturnedFailure ==
  IF res.op = "setattr" THEN res.val = PyInt(-1) ELSE res.kind = "NULL"

\* C29: an operation reports success or failure, never both: when it
\* returns a success value no Host exception is pending, and when it
\* returns its failure value (the end of an iteration aside) one is.
C29_SuccessXorException ==
  CameBack =>
    /\ ~ReturnedFailure => res.exc = NoExc
    /\ (ReturnedFailure /\ res.op # "next") => res.exc # NoExc


====
